---- MODULE Spec2Model ----
(***************************************************************************)
(* A model of the charger-location importers: the NAP importer             *)
(* (nap_importer.py: first_key, parse_power, is_ccs, normalize_record,     *)
(* load_csv, load_geojson, main) and the OpenChargeMap fetcher             *)
(* (fetch_ccs_ocm.py: fetch_country_ccs, main).                            *)
(*                                                                         *)
(* Python text is a sequence of one-character strings, so that lower(),    *)
(* replace(), substring tests and float() are computed character by        *)
(* character.  A Python float is a decimal m / 10^e with a sign, or nan,   *)
(* or an infinity; the decimals of the model are short, so the comparison  *)
(* with 50 and the text written by str() are those of the IEEE double.     *)
(***************************************************************************)
EXTENDS Integers, Sequences, FiniteSets, TLC

VARIABLES
    pval, pout,                    \* parse_power: the argument, the result
    fkd, fkkeys, fkout, fkd_after, \* first_key: d, keys, the result, d afterwards
    rec, nout,                     \* normalize_record: the record, the result
    gdata, gout, gdata_after,      \* load_geojson: the parsed document, the rows
    files, fidx, rows, ridx, features, pc, written, rt, \* nap_importer.main
    cidx, offset, all_items, got, fpc, log, saved   \* fetch_ccs_ocm.main

powerVars == <<pval, pout>>
fkVars    == <<fkd, fkkeys, fkout, fkd_after>>
normVars  == <<rec, nout>>
geoVars   == <<gdata, gout, gdata_after>>
mainVars  == <<files, fidx, rows, ridx, features, pc, written, rt>>
fetchVars == <<cidx, offset, all_items, got, fpc, log, saved>>
vars == <<powerVars, fkVars, normVars, geoVars, mainVars, fetchVars>>

----------------------------------------------------------------------------
(* Text *)

Uppers == <<"A","B","C","D","E","F","G","H","I","J","K","L","M",
            "N","O","P","Q","R","S","T","U","V","W","X","Y","Z">>
Lowers == <<"a","b","c","d","e","f","g","h","i","j","k","l","m",
            "n","o","p","q","r","s","t","u","v","w","x","y","z">>

LowerChar(c) ==
    IF \E i \in 1..Len(Uppers) : Uppers[i] = c
    THEN Lowers[CHOOSE i \in 1..Len(Uppers) : Uppers[i] = c]
    ELSE c

\* str.lower()
Lower(s) == [i \in 1..Len(s) |-> LowerChar(s[i])]

StartsWith(s, p) == Len(p) <= Len(s) /\ SubSeq(s, 1, Len(p)) = p

\* `sub in s`
Contains(s, sub) ==
    \E i \in 0..(Len(s) - Len(sub)) : SubSeq(s, i + 1, i + Len(sub)) = sub

\* str.replace(old, new) for a non-empty old: left to right, non-overlapping
RECURSIVE Replace(_, _, _)
Replace(s, old, new) ==
    IF Len(s) < Len(old) THEN s
    ELSE IF StartsWith(s, old)
         THEN new \o Replace(SubSeq(s, Len(old) + 1, Len(s)), old, new)
         ELSE <<Head(s)>> \o Replace(Tail(s), old, new)

Digits == <<"0","1","2","3","4","5","6","7","8","9">>
IsDigit(c) == \E i \in 1..10 : Digits[i] = c
DigitVal(c) == (CHOOSE i \in 1..10 : Digits[i] = c) - 1

RECURSIVE Pow10(_)
Pow10(n) == IF n = 0 THEN 1 ELSE 10 * Pow10(n - 1)

\* the decimal digits of a natural number
RECURSIVE NatText(_)
NatText(n) == IF n < 10 THEN <<Digits[n + 1]>>
              ELSE NatText(n \div 10) \o <<Digits[(n % 10) + 1]>>

\* the value of a non-empty digit text
RECURSIVE NatOf(_)
NatOf(s) == IF s = <<>> THEN 0
            ELSE 10 * NatOf(SubSeq(s, 1, Len(s) - 1)) + DigitVal(s[Len(s)])

AllDigits(s) == \A i \in 1..Len(s) : IsDigit(s[i])

----------------------------------------------------------------------------
(* Floats: m / 10^e with a sign, nan, or an infinity *)

RECURSIVE Norm(_, _)
Norm(m, e) == IF e > 0 /\ m % 10 = 0 THEN Norm(m \div 10, e - 1)
              ELSE [m |-> m, e |-> e]

Fin(neg, m, e) == [k |-> "fin", neg |-> neg, m |-> Norm(m, e).m, e |-> Norm(m, e).e]
NaN    == [k |-> "nan", neg |-> FALSE, m |-> 0, e |-> 0]
Inf    == [k |-> "inf", neg |-> FALSE, m |-> 0, e |-> 0]
NegInf == [k |-> "inf", neg |-> TRUE,  m |-> 0, e |-> 0]
Zero   == Fin(FALSE, 0, 0)

IsFinite(f) == f.k = "fin"

\* f < n for a natural number n; every comparison with nan is false
FloatLt(f, n) ==
    CASE f.k = "nan" -> FALSE
      [] f.k = "inf" -> f.neg
      [] OTHER -> IF f.neg THEN f.m > 0 \/ n > 0
                  ELSE f.m < n * Pow10(f.e)

----------------------------------------------------------------------------
(* Python values *)

PyNone     == [t |-> "none",  s |-> <<>>, x |-> Zero, b |-> FALSE, items |-> <<>>]
PyStrV(s)  == [t |-> "str",   s |-> s,    x |-> Zero, b |-> FALSE, items |-> <<>>]
PyInt(neg, m) == [t |-> "int", s |-> <<>>, x |-> Fin(neg, m, 0), b |-> FALSE, items |-> <<>>]
PyFloatV(f) == [t |-> "float", s |-> <<>>, x |-> f,   b |-> FALSE, items |-> <<>>]
PyBool(b)  == [t |-> "bool",  s |-> <<>>, x |-> Zero, b |-> b,     items |-> <<>>]
PyList(it) == [t |-> "list",  s |-> <<>>, x |-> Zero, b |-> FALSE, items |-> it]
\* an exception leaving a function, in place of its result
Raised     == [t |-> "raise", s |-> <<>>, x |-> Zero, b |-> FALSE, items |-> <<>>]

EmptyStr == PyStrV(<<>>)

\* bool(v): what `v or default` tests
Truthy(v) ==
    CASE v.t = "none"  -> FALSE
      [] v.t = "str"   -> v.s # <<>>
      [] v.t = "int"   -> v.x.m # 0
      [] v.t = "float" -> ~(v.x.k = "fin" /\ v.x.m = 0)
      [] v.t = "bool"  -> v.b
      [] v.t = "list"  -> v.items # <<>>
      [] OTHER -> TRUE

\* repr(float)
FloatText(f) ==
    CASE f.k = "nan" -> <<"n","a","n">>
      [] f.k = "inf" -> (IF f.neg THEN <<"-">> ELSE <<>>) \o <<"i","n","f">>
      [] OTHER ->
           LET ip == f.m \div Pow10(f.e)
               fp == f.m % Pow10(f.e)
               ft == NatText(fp)
               pad == [i \in 1..(f.e - Len(ft)) |-> "0"]
           IN (IF f.neg THEN <<"-">> ELSE <<>>) \o NatText(ip) \o <<".">>
              \o (IF f.e = 0 THEN <<"0">> ELSE pad \o ft)

\* the text of a list of strings, as repr writes it
RECURSIVE ItemsText(_)
ItemsText(it) ==
    IF it = <<>> THEN <<>>
    ELSE <<"'">> \o Head(it) \o <<"'">>
         \o (IF Len(it) > 1 THEN <<",", " ">> ELSE <<>>) \o ItemsText(Tail(it))

\* str(v)
PyStr(v) ==
    CASE v.t = "none"  -> <<"N","o","n","e">>
      [] v.t = "str"   -> v.s
      [] v.t = "int"   -> (IF v.x.neg THEN <<"-">> ELSE <<>>) \o NatText(v.x.m)
      [] v.t = "float" -> FloatText(v.x)
      [] v.t = "bool"  -> IF v.b THEN <<"T","r","u","e">> ELSE <<"F","a","l","s","e">>
      [] OTHER         -> <<"[">> \o ItemsText(v.items) \o <<"]">>

\* leading and trailing blanks removed, as float() does before it reads
RECURSIVE Strip(_)
Strip(s) ==
    IF s = <<>> THEN s
    ELSE IF Head(s) = " " THEN Strip(Tail(s))
    ELSE IF s[Len(s)] = " " THEN Strip(SubSeq(s, 1, Len(s) - 1))
    ELSE s

\* the text without its underscores, when each stands between two digits
UnderscoresOk(s) ==
    \A i \in 1..Len(s) :
        s[i] = "_" => /\ i > 1 /\ i < Len(s)
                      /\ IsDigit(s[i - 1]) /\ IsDigit(s[i + 1])
NoUnderscores(s) == Replace(s, <<"_">>, <<>>)

FirstIndex(s, cs) ==
    IF \E i \in 1..Len(s) : s[i] \in cs
    THEN CHOOSE i \in 1..Len(s) : s[i] \in cs /\ \A j \in 1..(i - 1) : s[j] \notin cs
    ELSE 0

NoFloat == [ok |-> FALSE, f |-> Zero]

\* the unsigned decimal text t (digits, one optional point, optional exponent)
ParseDecimal(neg, t) ==
    LET ei   == FirstIndex(t, {"e", "E"})
        mant == IF ei = 0 THEN t ELSE SubSeq(t, 1, ei - 1)
        expt == IF ei = 0 THEN <<>> ELSE SubSeq(t, ei + 1, Len(t))
        eneg == expt # <<>> /\ Head(expt) = "-"
        edig == IF expt # <<>> /\ Head(expt) \in {"+", "-"} THEN Tail(expt) ELSE expt
        pi   == FirstIndex(mant, {"."})
        ip   == IF pi = 0 THEN mant ELSE SubSeq(mant, 1, pi - 1)
        fp   == IF pi = 0 THEN <<>> ELSE SubSeq(mant, pi + 1, Len(mant))
        ok   == /\ UnderscoresOk(t)
                /\ AllDigits(NoUnderscores(ip)) /\ AllDigits(NoUnderscores(fp))
                /\ ip \o fp # <<>>
                /\ (ip = <<>> \/ IsDigit(ip[Len(ip)]))
                /\ (fp = <<>> \/ IsDigit(fp[1]))
                /\ (ei # 0 => edig # <<>> /\ AllDigits(NoUnderscores(edig))
                              /\ IsDigit(edig[1]))
        m    == NatOf(NoUnderscores(ip) \o NoUnderscores(fp))
        e    == Len(NoUnderscores(fp))
        x    == IF ei = 0 THEN 0 ELSE NatOf(NoUnderscores(edig))
    IN IF ~ok THEN NoFloat
       ELSE IF eneg THEN [ok |-> TRUE, f |-> Fin(neg, m, e + x)]
       ELSE IF x >= e THEN [ok |-> TRUE, f |-> Fin(neg, m * Pow10(x - e), 0)]
       ELSE [ok |-> TRUE, f |-> Fin(neg, m, e - x)]

\* float(text): [ok, f]; ok is false where Python raises ValueError
TextToFloat(s) ==
    LET t0   == Strip(s)
        sgn  == t0 # <<>> /\ Head(t0) \in {"+", "-"}
        neg  == t0 # <<>> /\ Head(t0) = "-"
        t    == IF sgn THEN Tail(t0) ELSE t0
        low  == Lower(t)
    IN IF low = <<"n","a","n">> THEN [ok |-> TRUE, f |-> NaN]
       ELSE IF low = <<"i","n","f">> \/ low = <<"i","n","f","i","n","i","t","y">>
            THEN [ok |-> TRUE, f |-> IF neg THEN NegInf ELSE Inf]
       ELSE ParseDecimal(neg, t)

\* float(v): ok is false where Python raises (ValueError, TypeError)
ToFloat(v) ==
    CASE v.t = "str"   -> TextToFloat(v.s)
      [] v.t = "int"   -> [ok |-> TRUE, f |-> v.x]
      [] v.t = "float" -> [ok |-> TRUE, f |-> v.x]
      [] v.t = "bool"  -> [ok |-> TRUE, f |-> IF v.b THEN Fin(FALSE, 1, 0) ELSE Zero]
      [] OTHER         -> NoFloat

----------------------------------------------------------------------------
(* nap_importer.py *)

CCS_KEYWORDS == << <<"c","c","s">>, <<"c","o","m","b","o">>,
                   <<"t","y","p","e"," ","2"," ","c","o","m","b","o">>,
                   <<"c","c","s","2">>,
                   <<"i","e","c"," ","6","2","1","9","6","-","3">> >>

\* is_ccs(value), value a text
is_ccs(value) ==
    LET v == Lower(value)
    IN \E i \in 1..Len(CCS_KEYWORDS) : Contains(v, CCS_KEYWORDS[i])

\* the units removed by parse_power, in the order of the loop
POWER_UNITS == << <<"k","w">>, <<"k","W">>, <<" ","k","w">>, <<" ","k","W">> >>

RECURSIVE RemoveUnits(_, _)
RemoveUnits(s, units) ==
    IF units = <<>> THEN s
    ELSE RemoveUnits(Replace(s, Lower(Head(units)), <<>>), Tail(units))

\* the try block of parse_power: [ok, f], ok false where it raises
parse_power_try(val) ==
    LET s == RemoveUnits(Replace(Lower(PyStr(val)), <<",">>, <<".">>), POWER_UNITS)
    IN TextToFloat(s)

\* an exception leaving parse_power, in place of its float
RaisedFloat == [k |-> "raise", neg |-> FALSE, m |-> 0, e |-> 0]

\* parse_power with the except clause left out: the exception leaves it
parse_power_no_except(val) ==
    IF parse_power_try(val).ok THEN parse_power_try(val).f ELSE RaisedFloat

\* parse_power(val): a float, 0.0 where the try block raises
parse_power(val) ==
    IF parse_power_try(val).ok THEN parse_power_try(val).f ELSE Zero

POWER_FIELDS ==
    << <<"p","o","w","e","r">>,
       <<"m","a","x","_","p","o","w","e","r">>,
       <<"m","a","x","_","p","o","w","e","r","_","k","w">>,
       <<"r","a","t","e","d","_","p","o","w","e","r">>,
       <<"r","a","t","e","d","_","p","o","w","e","r","_","k","w">>,
       <<"k","w">>,
       <<"m","a","x","k","w">> >>

CONNECTOR_FIELDS ==
    << <<"c","o","n","n","e","c","t","o","r">>,
       <<"c","o","n","n","e","c","t","o","r","s">>,
       <<"c","o","n","n","e","c","t","o","r","_","t","y","p","e">>,
       <<"s","o","c","k","e","t">>,
       <<"p","l","u","g">>,
       <<"p","l","u","g","_","t","y","p","e">> >>

LAT_FIELDS ==
    << <<"l","a","t">>,
       <<"l","a","t","i","t","u","d","e">>,
       <<"y">> >>

LON_FIELDS ==
    << <<"l","o","n">>,
       <<"l","n","g">>,
       <<"l","o","n","g","i","t","u","d","e">>,
       <<"x">> >>

NAME_FIELDS ==
    << <<"n","a","m","e">>,
       <<"t","i","t","l","e">>,
       <<"s","i","t","e","_","n","a","m","e">>,
       <<"a","d","d","r","e","s","s","_","t","i","t","l","e">> >>

CITY_FIELDS ==
    << <<"c","i","t","y">>,
       <<"t","o","w","n">>,
       <<"m","u","n","i","c","i","p","a","l","i","t","y">>,
       <<"p","l","a","c","e">> >>

COUNTRY_FIELDS ==
    << <<"c","o","u","n","t","r","y">>,
       <<"c","o","u","n","t","r","y","_","c","o","d","e">>,
       <<"i","s","o","2">>,
       <<"i","s","o">> >>

OPERATOR_FIELDS ==
    << <<"o","p","e","r","a","t","o","r">>,
       <<"o","p","e","r","a","t","o","r","_","n","a","m","e">>,
       <<"c","p","o">>,
       <<"o","w","n","e","r">>,
       <<"o","r","g","a","n","i","s","a","t","i","o","n">> >>

(* A dict is the sequence of its entries [k, v] in insertion order, its keys
   distinct; a key is a Python value: a text, or None (csv.DictReader's
   restkey, under which the surplus cells of a long row are stored). *)
Entry(k, v) == [k |-> k, v |-> v]
KeyIn(d, k) == \E i \in 1..Len(d) : d[i].k = k
DictGet(d, k) == d[CHOOSE i \in 1..Len(d) : d[i].k = k].v

\* d.setdefault(k, v)
SetDefault(d, k, v) == IF KeyIn(d, k) THEN d ELSE Append(d, Entry(k, v))

\* v not in (None, "")
Present(v) == ~(v.t = "none" \/ (v.t = "str" /\ v.s = <<>>))

\* {k.lower(): v for k, v in d.items()}: the entry written last under a
\* lower-cased key stays; a key that is no text has no lower()
LowerRaises(d) == \E i \in 1..Len(d) : d[i].k.t # "str"
LowerKey(k) == PyStrV(Lower(k.s))
LowerHas(d, k) == \E i \in 1..Len(d) : LowerKey(d[i].k) = k
LowerGet(d, k) ==
    d[CHOOSE i \in 1..Len(d) :
        /\ LowerKey(d[i].k) = k
        /\ \A j \in (i + 1)..Len(d) : LowerKey(d[j].k) # k].v

\* no alias matched in the first loop
NotFound == [t |-> "notfound", s |-> <<>>, x |-> Zero, b |-> FALSE, items |-> <<>>]

\* the first loop of first_key: the value found, or NotFound
RECURSIVE ExactPass(_, _)
ExactPass(d, keys) ==
    IF keys = <<>> THEN NotFound
    ELSE LET k == PyStrV(Head(keys))
         IN IF KeyIn(d, k) /\ Present(DictGet(d, k)) THEN DictGet(d, k)
            ELSE ExactPass(d, Tail(keys))

\* the second loop of first_key, over the lower-cased dict
RECURSIVE LowerPass(_, _)
LowerPass(d, keys) ==
    IF keys = <<>> THEN PyNone
    ELSE LET k == PyStrV(Head(keys))
         IN IF LowerHas(d, k) /\ Present(LowerGet(d, k)) THEN LowerGet(d, k)
            ELSE LowerPass(d, Tail(keys))

\* first_key(d, keys): a value, None, or Raised (AttributeError of k.lower())
first_key(d, keys) ==
    IF ExactPass(d, keys) # NotFound THEN ExactPass(d, keys)
    ELSE IF LowerRaises(d) THEN Raised
    ELSE LowerPass(d, keys)

DEFAULT_NAME == <<"C","C","S"," ","C","h","a","r","g","e","r">>
STATUS_FAST  == <<"f","a","s","t">>
SOURCE_NAP   == <<"N","A","P"," ","(","m","a","n","u","a","l"," ","i","m","p","o","r","t",")">>
SITE_CCS     == <<"C","C","S">>
K_name     == PyStrV(<<"n","a","m","e">>)
K_city     == PyStrV(<<"c","i","t","y">>)
K_country  == PyStrV(<<"c","o","u","n","t","r","y">>)
K_operator == PyStrV(<<"o","p","e","r","a","t","o","r">>)
K_status   == PyStrV(<<"s","t","a","t","u","s">>)
K_source   == PyStrV(<<"s","o","u","r","c","e">>)
K_siteType == PyStrV(<<"s","i","t","e","T","y","p","e">>)
K_lat      == PyStrV(<<"l","a","t">>)
K_lon      == PyStrV(<<"l","o","n">>)

\* what normalize_record gives back: a Feature, None, or an exception
NoGeometry == [type |-> "", coordinates |-> <<>>]
NoneResult   == [kind |-> "None",  geometry |-> NoGeometry, properties |-> <<>>]
RaisedResult == [kind |-> "raise", geometry |-> NoGeometry, properties |-> <<>>]

\* `first_key(rec, fields) or default`, then str()
OrDefault(v, default) == PyStrV(PyStr(IF Truthy(v) THEN v ELSE PyStrV(default)))

\* the coordinates of a Feature
Coordinates_lat_first(lon, lat) == <<PyFloatV(lat), PyFloatV(lon)>>
Coordinates(lon, lat) == <<PyFloatV(lon), PyFloatV(lat)>>

Feature(lon, lat, name, city, country, operator) ==
    [kind |-> "Feature",
     geometry |-> [type |-> "Point",
                   coordinates |-> Coordinates(lon, lat)],
     properties |-> << Entry(K_name, OrDefault(name, DEFAULT_NAME)),
                       Entry(K_city, OrDefault(city, <<>>)),
                       Entry(K_country, OrDefault(country, <<>>)),
                       Entry(K_operator, OrDefault(operator, <<>>)),
                       Entry(K_status, PyStrV(STATUS_FAST)),
                       Entry(K_source, PyStrV(SOURCE_NAP)),
                       Entry(K_siteType, PyStrV(SITE_CCS)) >>]

MIN_POWER_KW == 50

\* normalize_record with the connector and power gates applied only to a
\* value that is there: a record without them passes
normalize_record_lenient(r) ==
    LET lat == first_key(r, LAT_FIELDS)
        lon == first_key(r, LON_FIELDS)
        connector_val == first_key(r, CONNECTOR_FIELDS)
        power_val == first_key(r, POWER_FIELDS)
        name == first_key(r, NAME_FIELDS)
        city == first_key(r, CITY_FIELDS)
        country == first_key(r, COUNTRY_FIELDS)
        operator == first_key(r, OPERATOR_FIELDS)
    IN IF lat = Raised \/ lon = Raised THEN RaisedResult
       ELSE IF lat = PyNone \/ lon = PyNone THEN NoneResult
       ELSE IF ~ToFloat(lat).ok \/ ~ToFloat(lon).ok THEN NoneResult
       ELSE IF connector_val = Raised THEN RaisedResult
       ELSE IF connector_val # PyNone /\ ~is_ccs(PyStr(connector_val)) THEN NoneResult
       ELSE IF power_val = Raised THEN RaisedResult
       ELSE IF power_val # PyNone /\ FloatLt(parse_power(power_val), MIN_POWER_KW)
            THEN NoneResult
       ELSE IF name = Raised \/ city = Raised \/ country = Raised \/ operator = Raised
            THEN RaisedResult
       ELSE Feature(ToFloat(lon).f, ToFloat(lat).f, name, city, country, operator)

\* normalize_record(rec)
normalize_record(r) ==
    LET lat == first_key(r, LAT_FIELDS)
        lon == first_key(r, LON_FIELDS)
        connector_val == first_key(r, CONNECTOR_FIELDS)
        power_val == first_key(r, POWER_FIELDS)
        name == first_key(r, NAME_FIELDS)
        city == first_key(r, CITY_FIELDS)
        country == first_key(r, COUNTRY_FIELDS)
        operator == first_key(r, OPERATOR_FIELDS)
    IN IF lat = Raised THEN RaisedResult
       ELSE IF lon = Raised THEN RaisedResult
       ELSE IF lat = PyNone \/ lon = PyNone THEN NoneResult
       ELSE IF ~ToFloat(lat).ok \/ ~ToFloat(lon).ok THEN NoneResult
       ELSE IF connector_val = Raised THEN RaisedResult
       ELSE IF connector_val = PyNone \/ ~is_ccs(PyStr(connector_val)) THEN NoneResult
       ELSE IF power_val = Raised THEN RaisedResult
       ELSE IF power_val = PyNone \/ FloatLt(parse_power(power_val), MIN_POWER_KW)
            THEN NoneResult
       ELSE IF name = Raised \/ city = Raised \/ country = Raised \/ operator = Raised
            THEN RaisedResult
       ELSE Feature(ToFloat(lon).f, ToFloat(lat).f, name, city, country, operator)

(* csv.DictReader as load_csv uses it: a row shorter than the header has None
   for the missing cells, a longer one has its surplus cells, a list, under
   the key None; a row without cells is skipped. *)
RECURSIVE ZipRow(_, _)
ZipRow(header, cells) ==
    IF header = <<>>
    THEN IF cells = <<>> THEN <<>> ELSE <<Entry(PyNone, PyList(cells))>>
    ELSE <<Entry(PyStrV(Head(header)),
                 IF cells = <<>> THEN PyNone ELSE PyStrV(Head(cells)))>>
         \o ZipRow(Tail(header), IF cells = <<>> THEN <<>> ELSE Tail(cells))

RECURSIVE DictRows(_, _)
DictRows(header, lines) ==
    IF lines = <<>> THEN <<>>
    ELSE (IF Head(lines) = <<>> THEN <<>> ELSE <<ZipRow(header, Head(lines))>>)
         \o DictRows(header, Tail(lines))

\* load_csv(path): [raised, rows]; it raises where the file cannot be read
load_csv(file) ==
    IF ~file.readable THEN [raised |-> TRUE, rows |-> <<>>]
    ELSE [raised |-> FALSE, rows |-> DictRows(file.header, file.lines)]

(* A parsed GeoJSON feature: "properties" and "geometry" are each missing,
   null or an object; so is "coordinates", missing, null or a list. *)
Missing == "missing"
Null    == "null"
Given   == "given"
GeoFeature(pst, props, gst, type, cst, coords) ==
    [properties |-> [st |-> pst, d |-> props],
     geometry |-> [st |-> gst, type |-> type,
                   coordinates |-> [st |-> cst, items |-> coords]]]

\* geom and geom.get("type") == "Point"
IsPoint(feat) == feat.geometry.st = Given /\ feat.geometry.type = "Point"
\* geom.get("coordinates") or []
CoordsOf(feat) ==
    IF feat.geometry.coordinates.st = Given THEN feat.geometry.coordinates.items
    ELSE <<>>
\* a row is appended for this feature
GivesRow(feat) == IsPoint(feat) /\ Len(CoordsOf(feat)) >= 2
\* dict(props) raises TypeError on None
CopyRaises(feat) == GivesRow(feat) /\ feat.properties.st = Null
\* the row: a copy of props with lat and lon set where they are not keys yet
RowOf(feat) ==
    SetDefault(SetDefault(feat.properties.d, K_lat, CoordsOf(feat)[2]),
               K_lon, CoordsOf(feat)[1])

RECURSIVE RowsOf(_)
RowsOf(feats) ==
    IF feats = <<>> THEN <<>>
    ELSE (IF GivesRow(Head(feats)) THEN <<RowOf(Head(feats))>> ELSE <<>>)
         \o RowsOf(Tail(feats))

\* the loop of load_geojson over the features of the document:
\* [raised, rows, data], data the document as the loop leaves it
load_geojson_rows(feats) ==
    IF \E i \in 1..Len(feats) : CopyRaises(feats[i])
    THEN [raised |-> TRUE, rows |-> <<>>, data |-> feats]
    ELSE [raised |-> FALSE, rows |-> RowsOf(feats), data |-> feats]

(* json.dump and json.load of the FeatureCollection: a float is written as
   its repr (NaN, Infinity and -Infinity for the values that are not
   finite), a text between quotes with its quotes and backslashes escaped. *)
RECURSIVE JsonEscape(_)
JsonEscape(t) ==
    IF t = <<>> THEN <<>>
    ELSE (IF Head(t) \in {"\"", "\\"} THEN <<"\\", Head(t)>> ELSE <<Head(t)>>)
         \o JsonEscape(Tail(t))
RECURSIVE JsonUnescape(_)
JsonUnescape(t) ==
    IF t = <<>> THEN <<>>
    ELSE IF Head(t) = "\\" /\ Len(t) > 1
         THEN <<t[2]>> \o JsonUnescape(SubSeq(t, 3, Len(t)))
         ELSE <<Head(t)>> \o JsonUnescape(Tail(t))

JsonNumber(f) ==
    CASE f.k = "nan" -> <<"N","a","N">>
      [] f.k = "inf" -> (IF f.neg THEN <<"-">> ELSE <<>>)
                        \o <<"I","n","f","i","n","i","t","y">>
      [] OTHER -> FloatText(f)

\* a JSON number read back: a float when it has a fraction, an exponent or is
\* not finite, an int otherwise
JsonLoadNumber(t) ==
    IF t = <<"N","a","N">> THEN PyFloatV(NaN)
    ELSE IF t = <<"I","n","f","i","n","i","t","y">> THEN PyFloatV(Inf)
    ELSE IF t = <<"-","I","n","f","i","n","i","t","y">> THEN PyFloatV(NegInf)
    ELSE IF FirstIndex(t, {".", "e", "E"}) # 0 THEN PyFloatV(TextToFloat(t).f)
    ELSE PyInt(Head(t) = "-", TextToFloat(t).f.m)

\* json.dump of one Feature: its texts and numbers as written to the file
JsonDumpFeature(f) ==
    [type |-> f.geometry.type,
     coordinates |-> [i \in 1..Len(f.geometry.coordinates) |->
                         JsonNumber(f.geometry.coordinates[i].x)],
     properties |-> [i \in 1..Len(f.properties) |->
                        [k |-> JsonEscape(f.properties[i].k.s),
                         v |-> JsonEscape(f.properties[i].v.s)]]]
JsonDump(fs) == [i \in 1..Len(fs) |-> JsonDumpFeature(fs[i])]

\* json.load of the written document: the features as load_geojson reads them
JsonLoadFeature(j) ==
    GeoFeature(Given,
               [i \in 1..Len(j.properties) |->
                   Entry(PyStrV(JsonUnescape(j.properties[i].k)),
                         PyStrV(JsonUnescape(j.properties[i].v)))],
               Given, j.type, Given,
               [i \in 1..Len(j.coordinates) |-> JsonLoadNumber(j.coordinates[i])])
JsonLoad(doc) == [i \in 1..Len(doc) |-> JsonLoadFeature(doc[i])]

\* load_geojson(path): [raised, rows, data]; it raises where the file cannot
\* be read or is no JSON object with the structure it walks
load_geojson(file) ==
    IF ~file.readable THEN [raised |-> TRUE, rows |-> <<>>, data |-> file.feats]
    ELSE load_geojson_rows(file.feats)

----------------------------------------------------------------------------
(* The texts over an alphabet, up to a length *)

RECURSIVE TextsOfLen(_, _)
TextsOfLen(A, n) ==
    IF n = 0 THEN {<<>>}
    ELSE {<<c>> \o t : c \in A, t \in TextsOfLen(A, n - 1)}
TextsUpTo(A, n) == UNION {TextsOfLen(A, k) : k \in 0..n}

----------------------------------------------------------------------------
(* Each specification below drives one part of the program; the variables
   of the other parts rest at these values. *)

PowerIdle == pval = PyNone /\ pout = [done |-> FALSE, f |-> Zero]
FkIdle    == /\ fkd = <<>> /\ fkkeys = <<>> /\ fkd_after = <<>>
             /\ fkout = [done |-> FALSE, v |-> PyNone]
NormIdle  == rec = <<>> /\ nout = [done |-> FALSE, r |-> NoneResult]
GeoIdle   == /\ gdata = <<>> /\ gdata_after = <<>>
             /\ gout = [done |-> FALSE, raised |-> FALSE, rows |-> <<>>]
MainIdle  == /\ files = <<>> /\ fidx = 1 /\ rows = <<>> /\ ridx = 1
             /\ features = <<>> /\ pc = "idle" /\ written = <<>>
             /\ rt = [done |-> FALSE, rows |-> <<>>, features |-> <<>>]
FetchIdle == /\ cidx = 1 /\ offset = 0 /\ all_items = <<>> /\ got = <<>>
             /\ fpc = "idle" /\ log = <<>> /\ saved = <<>>

----------------------------------------------------------------------------
(* parse_power on its own *)

MaxPowerLen == 5
PowerAlphabet == {"5", ",", "k", "W", " "}

PowerExamples ==
    { <<"1","5","0","k","W">>,
      <<"1","5","0"," ","k","W">>,
      <<"1","5","0",",","5","k","w">>,
      <<"1","5","0",".","5">>,
      <<"n","/","a">>,
      <<"5","0">>,
      <<"4","9",",","9">>,
      <<"n","a","n">>,
      <<"i","n","f">>,
      <<"-","i","n","f">>,
      <<"I","n","f","i","n","i","t","y">>,
      <<"5","k","k","k","W","W","W">>,
      <<"1"," ","k","w","5">>,
      <<"4","0","k","w">>,
      <<"0",",","0","5"," ","K","W">> }

PowerInputs ==
    {PyStrV(t) : t \in TextsUpTo(PowerAlphabet, MaxPowerLen) \cup PowerExamples}
    \cup {PyNone, PyBool(TRUE), PyBool(FALSE), PyList(<<>>),
          PyInt(FALSE, 0), PyInt(FALSE, 50), PyInt(FALSE, 150), PyInt(TRUE, 7),
          PyFloatV(Fin(FALSE, 1505, 1)), PyFloatV(Fin(FALSE, 150, 0)),
          PyFloatV(Fin(FALSE, 4999, 2)), PyFloatV(Fin(TRUE, 25, 1))}

InitPower ==
    /\ pval \in PowerInputs
    /\ pout = [done |-> FALSE, f |-> Zero]
    /\ FkIdle /\ NormIdle /\ GeoIdle /\ MainIdle /\ FetchIdle

ParsePower ==
    /\ ~pout.done
    /\ pout' = [done |-> TRUE, f |-> parse_power(pval)]
    /\ UNCHANGED <<pval, fkVars, normVars, geoVars, mainVars, fetchVars>>

NextPower == ParsePower
SpecPower == InitPower /\ [][NextPower]_vars

(* The number the claim describes, computed apart from the code: the text of
   the value, lower-cased, "," read as ".", the unit "kw" taken out, read as
   a number; 0.0 when that text is no number.  Occurrences of "kw" cannot
   overlap, so taking each one out is dropping the characters of each. *)
InUnit(t, i) ==
    \/ (t[i] = "k" /\ i < Len(t) /\ t[i + 1] = "w")
    \/ (t[i] = "w" /\ i > 1 /\ t[i - 1] = "k")
RECURSIVE DropUnitFrom(_, _)
DropUnitFrom(t, i) ==
    IF i > Len(t) THEN <<>>
    ELSE (IF InUnit(t, i) THEN <<>> ELSE <<t[i]>>) \o DropUnitFrom(t, i + 1)
\* every occurrence taken out once
DropUnitOnce(t) == DropUnitFrom(t, 1)
\* taken out until none is left
RECURSIVE DropUnitAll(_)
DropUnitAll(t) == IF DropUnitOnce(t) = t THEN t ELSE DropUnitAll(DropUnitOnce(t))

PointForComma(t) == [i \in 1..Len(t) |-> IF t[i] = "," THEN "." ELSE t[i]]
PowerText(val) == PointForComma(Lower(PyStr(val)))
NumberOr0(t) == IF TextToFloat(t).ok THEN TextToFloat(t).f ELSE Zero

PowerIs(t, f) == pval = PyStrV(t) => pout.f = f

----------------------------------------------------------------------------
(* first_key on its own *)

MaxEntries == 2

FkKeys == { PyStrV(<<"l","a","t">>), PyStrV(<<"L","a","t">>), PyStrV(<<"L","A","T">>), PyStrV(<<"l","a","t","i","t","u","d","e">>), PyStrV(<<"z","z","z">>) }
FkValues == { PyNone, EmptyStr, PyStrV(<<"5">>), PyInt(FALSE, 7) }

RECURSIVE DictsOfLen(_, _, _)
DictsOfLen(K, V, n) ==
    IF n = 0 THEN {<<>>}
    ELSE {Append(d, Entry(k, v)) :
            d \in DictsOfLen(K, V, n - 1), k \in K, v \in V}
DistinctKeys(d) == \A i, j \in 1..Len(d) : d[i].k = d[j].k => i = j
DictsUpTo(K, V, n) ==
    {d \in UNION {DictsOfLen(K, V, m) : m \in 0..n} : DistinctKeys(d)}

InitFirstKey ==
    /\ fkd \in DictsUpTo(FkKeys, FkValues, MaxEntries)
    /\ fkkeys \in {LAT_FIELDS}
    /\ fkd_after = <<>>
    /\ fkout = [done |-> FALSE, v |-> PyNone]
    /\ PowerIdle /\ NormIdle /\ GeoIdle /\ MainIdle /\ FetchIdle

\* first_key reads d and builds a dict of its own: d is left as it was
FirstKey ==
    /\ ~fkout.done
    /\ fkout' = [done |-> TRUE, v |-> first_key(fkd, fkkeys)]
    /\ fkd_after' = fkd
    /\ UNCHANGED <<fkd, fkkeys, powerVars, normVars, geoVars, mainVars, fetchVars>>

NextFirstKey == FirstKey
SpecFirstKey == InitFirstKey /\ [][NextFirstKey]_vars

\* alias i is an exact key of d with a value that is neither None nor ""
ExactHit(d, keys, i) ==
    KeyIn(d, PyStrV(keys[i])) /\ Present(DictGet(d, PyStrV(keys[i])))
\* the values d holds, neither None nor "", under a key that lower-cases to alias i
CaseValues(d, keys, i) ==
    {d[j].v : j \in {n \in 1..Len(d) :
        d[n].k.t = "str" /\ Lower(d[n].k.s) = keys[i] /\ Present(d[n].v)}}
\* the earliest alias with an exact hit, with a hit but for letter case
EarliestExact(d, keys) ==
    CHOOSE i \in 1..Len(keys) :
        ExactHit(d, keys, i) /\ \A j \in 1..(i - 1) : ~ExactHit(d, keys, j)
EarliestCase(d, keys) ==
    CHOOSE i \in 1..Len(keys) :
        /\ CaseValues(d, keys, i) # {}
        /\ \A j \in 1..(i - 1) : CaseValues(d, keys, j) = {}

\* C5: first_key gives the value of the earliest alias that is an exact key
\* with a value neither None nor ""; only if there is none, the value of the
\* earliest alias equal to a lower-cased key with such a value; None exactly
\* when no key equal to an alias, exactly or but for letter case, holds such a
\* value, also when several keys differ only in letter case; d is not changed.
C5_FirstKey ==
    fkout.done =>
      /\ fkd_after = fkd
      /\ fkout.v # Raised
      /\ IF \E i \in 1..Len(fkkeys) : ExactHit(fkd, fkkeys, i)
         THEN fkout.v = DictGet(fkd, PyStrV(fkkeys[EarliestExact(fkd, fkkeys)]))
         ELSE IF \E i \in 1..Len(fkkeys) : CaseValues(fkd, fkkeys, i) # {}
         THEN fkout.v \in CaseValues(fkd, fkkeys, EarliestCase(fkd, fkkeys))
         ELSE fkout.v = PyNone

----------------------------------------------------------------------------
(* normalize_record on its own.  A record is put together from one choice
   per attribute, in the order of the columns; the last choice is the
   entry csv.DictReader adds to a row longer than the header. *)

LatChoices ==
    { <<>>, <<Entry(PyStrV(<<"l","a","t">>), PyStrV(<<"5","2",".","5">>))>>,
      <<Entry(PyStrV(<<"l","a","t">>), PyFloatV(Fin(FALSE, 525, 1)))>>,
      <<Entry(PyStrV(<<"L","a","t","i","t","u","d","e">>), PyStrV(<<"-","3",".","2","5">>))>>,
      <<Entry(PyStrV(<<"l","a","t">>), PyStrV(<<"a","b","c">>))>>,
      <<Entry(PyStrV(<<"l","a","t">>), PyStrV(<<"n","a","n">>))>> }
LonChoices ==
    { <<>>, <<Entry(PyStrV(<<"l","o","n">>), PyStrV(<<"1","3",".","4">>))>>,
      <<Entry(PyStrV(<<"l","n","g">>), PyStrV(<<"i","n","f">>))>>,
      <<Entry(PyStrV(<<"X">>), PyInt(FALSE, 13))>> }
ConnectorChoices ==
    { <<>>, <<Entry(PyStrV(<<"c","o","n","n","e","c","t","o","r">>), PyStrV(<<"C","C","S","2">>))>>,
      <<Entry(PyStrV(<<"s","o","c","k","e","t">>), PyStrV(<<"T","y","p","e"," ","2">>))>>,
      <<Entry(PyStrV(<<"P","l","u","g">>), PyStrV(<<"T","y","p","e"," ","2"," ","C","O","M","B","O">>))>>,
      <<Entry(PyStrV(<<"c","o","n","n","e","c","t","o","r">>), PyList(<<<<"I","E","C"," ","6","2","1","9","6","-","3">>>>))>> }
PowerChoices ==
    { <<>>, <<Entry(PyStrV(<<"p","o","w","e","r">>), PyStrV(<<"1","5","0","k","w">>))>>,
      <<Entry(PyStrV(<<"m","a","x","_","p","o","w","e","r">>), PyStrV(<<"4","9",",","9">>))>>,
      <<Entry(PyStrV(<<"k","w">>), PyInt(FALSE, 50))>>,
      <<Entry(PyStrV(<<"p","o","w","e","r">>), PyStrV(<<"n","a","n">>))>>,
      <<Entry(PyStrV(<<"p","o","w","e","r">>), PyStrV(<<"n","/","a">>))>>,
      <<Entry(PyStrV(<<"M","a","x","K","W">>), PyStrV(<<"5","0"," ","k","W">>))>> }
NameChoices ==
    { <<>>, <<Entry(PyStrV(<<"n","a","m","e">>), PyStrV(<<"S","i","t","e"," ","A">>))>>,
      <<Entry(PyStrV(<<"t","i","t","l","e">>), PyInt(FALSE, 0))>>,
      <<Entry(PyStrV(<<"n","a","m","e">>), EmptyStr), Entry(PyStrV(<<"S","i","t","e","_","N","a","m","e">>), PyStrV(<<"B"," ","7">>))>> }
PlaceChoices ==
    { <<>>, <<Entry(PyStrV(<<"c","i","t","y">>), PyStrV(<<"B","e","r","l","i","n">>)), Entry(PyStrV(<<"c","o","u","n","t","r","y">>), PyStrV(<<"D","E">>)), Entry(PyStrV(<<"o","p","e","r","a","t","o","r">>), PyStrV(<<"I","o","n","i","t","y">>))>> }
SurplusChoices ==
    { <<>>, <<Entry(PyNone, PyList(<<<<"x">>>>))>> }

Records ==
    {la \o lo \o co \o po \o na \o pl \o su :
        la \in LatChoices, lo \in LonChoices, co \in ConnectorChoices,
        po \in PowerChoices, na \in NameChoices, pl \in PlaceChoices,
        su \in SurplusChoices}

InitNormalize ==
    /\ rec \in Records
    /\ nout = [done |-> FALSE, r |-> NoneResult]
    /\ PowerIdle /\ FkIdle /\ GeoIdle /\ MainIdle /\ FetchIdle

Normalize ==
    /\ ~nout.done
    /\ nout' = [done |-> TRUE, r |-> normalize_record(rec)]
    /\ UNCHANGED <<rec, powerVars, fkVars, geoVars, mainVars, fetchVars>>

NextNormalize == Normalize
SpecNormalize == InitNormalize /\ [][NextNormalize]_vars

Resolved(v) == v # PyNone /\ v # Raised

\* the three gates of the claim
CoordinateGate(r) ==
    /\ Resolved(first_key(r, LAT_FIELDS)) /\ Resolved(first_key(r, LON_FIELDS))
    /\ ToFloat(first_key(r, LAT_FIELDS)).ok /\ ToFloat(first_key(r, LON_FIELDS)).ok
ConnectorGate(r) ==
    /\ Resolved(first_key(r, CONNECTOR_FIELDS))
    /\ \E i \in 1..Len(CCS_KEYWORDS) :
          Contains(Lower(PyStr(first_key(r, CONNECTOR_FIELDS))), CCS_KEYWORDS[i])
PowerGate(r) ==
    /\ Resolved(first_key(r, POWER_FIELDS))
    /\ ~FloatLt(parse_power(first_key(r, POWER_FIELDS)), 50)
Gates(r) == CoordinateGate(r) /\ ConnectorGate(r) /\ PowerGate(r)

\* a finite number, the text of one, or a text that is no number
FiniteOrNoNumber(v) ==
    \/ v.t \in {"int", "float"} /\ IsFinite(v.x)
    \/ v.t = "str" /\ (TextToFloat(v.s).ok => IsFinite(TextToFloat(v.s).f))
    \/ v.t = "none"
IsAlias(k, fields) ==
    k.t = "str" /\ \E i \in 1..Len(fields) : fields[i] = Lower(k.s)
NumbersFinite(r) ==
    \A i \in 1..Len(r) :
        (IsAlias(r[i].k, LAT_FIELDS) \/ IsAlias(r[i].k, LON_FIELDS)
            \/ IsAlias(r[i].k, POWER_FIELDS)) => FiniteOrNoNumber(r[i].v)

\* C1: for a record whose latitude, longitude and power are finite numbers,
\* texts of finite numbers or texts that are no number, normalize_record
\* gives a Feature if and only if the coordinate, connector and power gates
\* pass (a power of exactly 50 passes), and None in every other case; name,
\* city, country and operator have no part in it.
C1_Gates ==
    (nout.done /\ NumbersFinite(rec)) =>
        /\ Gates(rec) => nout.r.kind = "Feature"
        /\ ~Gates(rec) => nout.r.kind = "None"

\* C2: normalize_record is total: for every record a loader can hand to it
\* (a CSV row longer than the header included) it gives one Feature or None,
\* and never raises.
C2_Total == nout.done => nout.r.kind \in {"Feature", "None"}

\* C7: no value that is not finite passes a numeric gate: every Feature has
\* two finite coordinates, and its record's parsed power is a number >= 50.
C7_Finite ==
    (nout.done /\ nout.r.kind = "Feature") =>
        /\ \A i \in 1..2 : IsFinite(nout.r.geometry.coordinates[i].x)
        /\ parse_power(first_key(rec, POWER_FIELDS)).k # "nan"
        /\ ~FloatLt(parse_power(first_key(rec, POWER_FIELDS)), 50)

PropertyKeys(f) == [i \in 1..Len(f.properties) |-> f.properties[i].k]
Property(f, k) == DictGet(f.properties, k)
\* the text the claim gives a property: str() of the resolved value, or the
\* default when no alias resolves or the value is falsy
Expected(r, fields, default) ==
    LET v == first_key(r, fields)
    IN IF v = PyNone \/ ~Truthy(v) THEN PyStrV(default) ELSE PyStrV(PyStr(v))

\* C9: every Feature normalize_record gives is a Point at [longitude,
\* latitude], neither null, with exactly the properties name, city, country,
\* operator, status, source, siteType; name is a non-empty text, "CCS
\* Charger" when no name alias resolves or the value is falsy; city, country
\* and operator are texts, "" by default; status is "fast", siteType "CCS",
\* source "NAP (manual import)".
C9_Feature ==
    (nout.done /\ nout.r.kind = "Feature") =>
      LET f == nout.r
      IN /\ f.geometry.type = "Point"
         /\ f.geometry.coordinates =
              << PyFloatV(ToFloat(first_key(rec, LON_FIELDS)).f),
                 PyFloatV(ToFloat(first_key(rec, LAT_FIELDS)).f) >>
         /\ PropertyKeys(f) = <<K_name, K_city, K_country, K_operator,
                                K_status, K_source, K_siteType>>
         /\ \A i \in 1..Len(f.properties) : f.properties[i].v.t = "str"
         /\ Property(f, K_name).s # <<>>
         /\ Property(f, K_name) = Expected(rec, NAME_FIELDS, <<"C","C","S"," ","C","h","a","r","g","e","r">>)
         /\ Property(f, K_city) = Expected(rec, CITY_FIELDS, <<>>)
         /\ Property(f, K_country) = Expected(rec, COUNTRY_FIELDS, <<>>)
         /\ Property(f, K_operator) = Expected(rec, OPERATOR_FIELDS, <<>>)
         /\ Property(f, K_status).s = <<"f","a","s","t">>
         /\ Property(f, K_siteType).s = <<"C","C","S">>
         /\ Property(f, K_source).s = <<"N","A","P"," ","(","m","a","n","u","a","l"," ","i","m","p","o","r","t",")">>

\* a Feature whose name alias resolved to 0 and fell back to the default,
\* its longitude read from the key "X" and its latitude from "Latitude"
C9_Witness ==
    /\ nout.done /\ nout.r.kind = "Feature"
    /\ first_key(rec, NAME_FIELDS) = PyInt(FALSE, 0)
    /\ Property(nout.r, K_name).s = <<"C","C","S"," ","C","h","a","r","g","e","r">>
    /\ Property(nout.r, K_city).s = <<"B","e","r","l","i","n">>
    /\ nout.r.geometry.coordinates =
         <<PyFloatV(Fin(FALSE, 13, 0)), PyFloatV(Fin(TRUE, 325, 2))>>

----------------------------------------------------------------------------
(* load_geojson on its own *)

MaxFeats == 2

PropsChoices ==
    { [st |-> Missing, d |-> <<>>], [st |-> Null, d |-> <<>>],
      [st |-> Given, d |-> <<Entry(PyStrV(<<"n","a","m","e">>), PyStrV(<<"A">>))>>],
      [st |-> Given, d |-> <<Entry(PyStrV(<<"l","a","t">>), PyNone), Entry(PyStrV(<<"n","a","m","e">>), PyStrV(<<"A">>))>>],
      [st |-> Given, d |-> <<Entry(PyStrV(<<"l","o","n">>), EmptyStr), Entry(PyStrV(<<"l","a","t">>), PyStrV(<<"9">>))>>] }
GeometryChoices ==
    { [st |-> Missing, type |-> "", coordinates |-> [st |-> Missing, items |-> <<>>]],
      [st |-> Null, type |-> "", coordinates |-> [st |-> Missing, items |-> <<>>]],
      [st |-> Given, type |-> "Point",
       coordinates |-> [st |-> Given, items |-> <<PyFloatV(Fin(FALSE, 134, 1)), PyFloatV(Fin(FALSE, 525, 1))>>]],
      [st |-> Given, type |-> "Point",
       coordinates |-> [st |-> Given,
                        items |-> <<PyInt(TRUE, 3), PyInt(FALSE, 48), PyInt(FALSE, 100)>>]],
      [st |-> Given, type |-> "Point",
       coordinates |-> [st |-> Given, items |-> <<PyFloatV(Fin(FALSE, 134, 1))>>]],
      [st |-> Given, type |-> "Point", coordinates |-> [st |-> Null, items |-> <<>>]],
      [st |-> Given, type |-> "LineString",
       coordinates |-> [st |-> Given, items |-> <<PyList(<<>>), PyList(<<>>)>>]] }
GeoFeatures ==
    {[properties |-> p, geometry |-> g] : p \in PropsChoices, g \in GeometryChoices}

RECURSIVE SeqsOfLen(_, _)
SeqsOfLen(X, n) ==
    IF n = 0 THEN {<<>>} ELSE {Append(q, x) : q \in SeqsOfLen(X, n - 1), x \in X}
SeqsUpTo(X, n) == UNION {SeqsOfLen(X, m) : m \in 0..n}

InitGeo ==
    /\ gdata \in SeqsUpTo(GeoFeatures, MaxFeats)
    /\ gdata_after = <<>>
    /\ gout = [done |-> FALSE, raised |-> FALSE, rows |-> <<>>]
    /\ PowerIdle /\ FkIdle /\ NormIdle /\ MainIdle /\ FetchIdle

LoadGeojson ==
    /\ ~gout.done
    /\ gout' = [done |-> TRUE, raised |-> load_geojson_rows(gdata).raised,
                rows |-> load_geojson_rows(gdata).rows]
    /\ gdata_after' = load_geojson_rows(gdata).data
    /\ UNCHANGED <<gdata, powerVars, fkVars, normVars, mainVars, fetchVars>>

NextGeo == LoadGeojson
SpecGeo == InitGeo /\ [][NextGeo]_vars

\* the features the claim gives a record: a Point with two coordinates or more
ClaimedPoint(feat) ==
    /\ feat.geometry.st = Given /\ feat.geometry.type = "Point"
    /\ feat.geometry.coordinates.st = Given
    /\ Len(feat.geometry.coordinates.items) >= 2
\* the record of the claim: the properties, and lat and lon where no such key is
ClaimedRow(feat) ==
    LET props == IF feat.properties.st = Given THEN feat.properties.d ELSE <<>>
        c == feat.geometry.coordinates.items
    IN props \o (IF KeyIn(props, K_lat) THEN <<>> ELSE <<Entry(K_lat, c[2])>>)
             \o (IF KeyIn(props, K_lon) THEN <<>> ELSE <<Entry(K_lon, c[1])>>)
ClaimedRows(feats) ==
    LET pts == SelectSeq(feats, ClaimedPoint)
    IN [i \in 1..Len(pts) |-> ClaimedRow(pts[i])]

\* C8: load_geojson gives, in feature order, one record for each feature that
\* is a Point with two coordinates or more and none for any other; the record
\* is the feature's properties with lat = coordinates[1] and lon =
\* coordinates[0], a lat or lon key of the properties keeping its own value;
\* the properties of the parsed feature are not changed.
C8_LoadGeojson ==
    gout.done =>
        /\ ~gout.raised
        /\ gout.rows = ClaimedRows(gdata)
        /\ gdata_after = gdata

----------------------------------------------------------------------------
(* nap_importer.main: the walk over RAW_DIR *)

MaxFiles == 2

CsvFile(suffix, readable, header, lines) ==
    [isfile |-> TRUE, suffix |-> suffix, readable |-> readable,
     header |-> header, lines |-> lines, feats |-> <<>>]
JsonFile(suffix, readable, feats) ==
    [isfile |-> TRUE, suffix |-> suffix, readable |-> readable,
     header |-> <<>>, lines |-> <<>>, feats |-> feats]
OtherFile(suffix) ==
    [isfile |-> TRUE, suffix |-> suffix, readable |-> TRUE,
     header |-> <<>>, lines |-> <<>>, feats |-> <<>>]
Directory ==
    [isfile |-> FALSE, suffix |-> <<>>, readable |-> TRUE,
     header |-> <<>>, lines |-> <<>>, feats |-> <<>>]

SUFFIX_CSV == <<".","c","s","v">>
SUFFIX_GEOJSON == <<".","g","e","o","j","s","o","n">>
SUFFIX_JSON == <<".","j","s","o","n">>

FilePool ==
    { \* two rows, the first a fast CCS site
      CsvFile(<<".","c","s","v">>, TRUE,
              <<<<"l","a","t">>, <<"l","o","n">>, <<"c","o","n","n","e","c","t","o","r">>, <<"p","o","w","e","r">>, <<"n","a","m","e">>>>,
              << <<<<"5","2",".","5">>, <<"1","3",".","4">>, <<"C","C","S","2">>, <<"1","5","0","k","w">>, <<"S","i","t","e"," ","\"","A","\"">>>>,
                 <<<<"4","8",".","1">>, <<"1","1",".","5">>, <<"T","y","p","e"," ","2">>>> >>),
      \* upper-case suffix and header
      CsvFile(<<".","C","S","V">>, TRUE,
              <<<<"L","a","t","i","t","u","d","e">>, <<"L","N","G">>, <<"S","o","c","k","e","t">>, <<"K","W">>>>,
              << <<<<"-","3",".","2","5">>, <<"1","3">>, <<"c","o","m","b","o">>, <<"5","0">>>> >>),
      \* a row with one cell more than the header
      CsvFile(<<".","c","s","v">>, TRUE,
              <<<<"l","a","t">>, <<"l","o","n">>, <<"c","o","n","n","e","c","t","o","r">>, <<"p","o","w","e","r">>>>,
              << <<<<"1">>, <<"2">>, <<"C","C","S">>, <<"6","0">>, <<"x">>>> >>),
      \* cannot be read
      CsvFile(<<".","c","s","v">>, FALSE, <<>>, <<>>),
      JsonFile(<<".","g","e","o","j","s","o","n">>, TRUE,
               << GeoFeature(Given, <<Entry(PyStrV(<<"p","l","u","g">>), PyStrV(<<"C","C","S">>)), Entry(PyStrV(<<"m","a","x","k","w">>), PyInt(FALSE, 300)), Entry(PyStrV(<<"t","i","t","l","e">>), PyStrV(<<"G">>))>>,
                             Given, "Point", Given, <<PyFloatV(Fin(FALSE, 134, 1)), PyFloatV(Fin(FALSE, 525, 1))>>),
                  GeoFeature(Given, <<Entry(PyStrV(<<"p","l","u","g">>), PyStrV(<<"C","C","S">>))>>,
                             Given, "LineString", Given, <<PyList(<<>>), PyList(<<>>)>>) >>),
      \* a Point whose properties are null
      JsonFile(<<".","j","s","o","n">>, TRUE,
               << GeoFeature(Null, <<>>, Given, "Point", Given, <<PyFloatV(Fin(FALSE, 134, 1)), PyFloatV(Fin(FALSE, 525, 1))>>) >>),
      \* no JSON
      JsonFile(<<".","J","S","O","N">>, FALSE, <<>>),
      OtherFile(<<".","t","x","t">>),
      Directory }

mainOthers == <<powerVars, fkVars, normVars, geoVars, fetchVars>>

NoReimport == [done |-> FALSE, rows |-> <<>>, features |-> <<>>]

Init ==
    /\ files \in SeqsUpTo(FilePool, MaxFiles)
    /\ fidx = 1 /\ rows = <<>> /\ ridx = 1 /\ features = <<>>
    /\ pc = "walk"
    /\ written = <<>>
    /\ rt = NoReimport
    /\ PowerIdle /\ FkIdle /\ NormIdle /\ GeoIdle /\ FetchIdle

Walking == pc = "walk" /\ fidx <= Len(files)
IsCsv(f) == Lower(f.suffix) = SUFFIX_CSV
IsJson(f) == Lower(f.suffix) \in {SUFFIX_GEOJSON, SUFFIX_JSON}

NextFile == /\ fidx' = fidx + 1 /\ rows' = <<>> /\ ridx' = 1 /\ pc' = "walk"

\* the rows of a loaded file are normalized next; a file without rows is done
StartRows(rs) ==
    IF rs = <<>> THEN NextFile
    ELSE /\ rows' = rs /\ ridx' = 1 /\ pc' = "rows" /\ fidx' = fidx

\* if not path.is_file(): continue
SkipDirectory ==
    /\ Walking /\ ~files[fidx].isfile
    /\ NextFile
    /\ UNCHANGED <<files, features, written, rt, mainOthers>>

LoadCsvFile ==
    /\ Walking /\ files[fidx].isfile /\ IsCsv(files[fidx])
    /\ ~load_csv(files[fidx]).raised
    /\ StartRows(load_csv(files[fidx]).rows)
    /\ UNCHANGED <<files, features, written, rt, mainOthers>>

\* except Exception: continue
LoadCsvFails ==
    /\ Walking /\ files[fidx].isfile /\ IsCsv(files[fidx])
    /\ load_csv(files[fidx]).raised
    /\ NextFile
    /\ UNCHANGED <<files, features, written, rt, mainOthers>>

LoadGeojsonFile ==
    /\ Walking /\ files[fidx].isfile /\ ~IsCsv(files[fidx]) /\ IsJson(files[fidx])
    /\ ~load_geojson(files[fidx]).raised
    /\ StartRows(load_geojson(files[fidx]).rows)
    /\ UNCHANGED <<files, features, written, rt, mainOthers>>

LoadGeojsonFails ==
    /\ Walking /\ files[fidx].isfile /\ ~IsCsv(files[fidx]) /\ IsJson(files[fidx])
    /\ load_geojson(files[fidx]).raised
    /\ NextFile
    /\ UNCHANGED <<files, features, written, rt, mainOthers>>

\* else: continue
SkipOtherSuffix ==
    /\ Walking /\ files[fidx].isfile /\ ~IsCsv(files[fidx]) /\ ~IsJson(files[fidx])
    /\ NextFile
    /\ UNCHANGED <<files, features, written, rt, mainOthers>>

\* feat = normalize_record(row); if feat: features.append(feat).  An
\* exception of normalize_record is caught nowhere: main ends with it.
NormalizeRow ==
    /\ pc = "rows"
    /\ LET feat == normalize_record(rows[ridx])
       IN IF feat.kind = "raise"
          THEN /\ pc' = "raised"
               /\ UNCHANGED <<fidx, rows, ridx, features>>
          ELSE /\ features' = IF feat.kind = "Feature" THEN Append(features, feat)
                              ELSE features
               /\ IF ridx = Len(rows) THEN NextFile
                  ELSE /\ ridx' = ridx + 1
                       /\ UNCHANGED <<fidx, rows, pc>>
    /\ UNCHANGED <<files, written, rt, mainOthers>>

\* json.dump(fc, f) after the walk
WriteOutput ==
    /\ pc = "walk" /\ fidx > Len(files)
    /\ written' = JsonDump(features)
    /\ pc' = "done"
    /\ UNCHANGED <<files, fidx, rows, ridx, features, rt, mainOthers>>

\* the written file given to load_geojson, its rows to normalize_record
RECURSIVE NormalizeAll(_)
NormalizeAll(rs) ==
    IF rs = <<>> THEN <<>>
    ELSE (IF normalize_record(Head(rs)).kind = "Feature"
          THEN <<normalize_record(Head(rs))>> ELSE <<>>) \o NormalizeAll(Tail(rs))

Reimport ==
    /\ pc = "done" /\ ~rt.done
    /\ LET loaded == load_geojson_rows(JsonLoad(written))
       IN rt' = [done |-> TRUE, rows |-> loaded.rows,
                 features |-> NormalizeAll(loaded.rows)]
    /\ UNCHANGED <<files, fidx, rows, ridx, features, pc, written, mainOthers>>

Next ==
    \/ SkipDirectory \/ LoadCsvFile \/ LoadCsvFails \/ LoadGeojsonFile
    \/ LoadGeojsonFails \/ SkipOtherSuffix \/ NormalizeRow \/ WriteOutput
    \/ Reimport

Spec == Init /\ [][Next]_vars

\* the rows main normalizes for a file: none for a directory, another
\* suffix, or a file whose loader raises
RowsOfFile(f) ==
    IF ~f.isfile THEN <<>>
    ELSE IF Lower(f.suffix) = SUFFIX_CSV
         THEN (IF f.readable THEN DictRows(f.header, f.lines) ELSE <<>>)
    ELSE IF Lower(f.suffix) \in {SUFFIX_GEOJSON, SUFFIX_JSON}
         THEN (IF load_geojson(f).raised THEN <<>> ELSE load_geojson(f).rows)
    ELSE <<>>
RECURSIVE AcceptedOf(_)
AcceptedOf(fs) ==
    IF fs = <<>> THEN <<>>
    ELSE NormalizeAll(RowsOfFile(Head(fs))) \o AcceptedOf(Tail(fs))

\* C4: a file whose loader fails gives no features and does not stop the run,
\* files with other suffixes are ignored, the written collection is the
\* features accepted from the loaded files, in file order and then record
\* order, nothing taken out, and the output is always written at the end.
C4_Isolation ==
    /\ pc # "raised"
    /\ pc = "done" => written = JsonDump(AcceptedOf(files))

\* C3 as stated: the re-import of a written collection gives the collection back
C3_RoundTrip == rt.done => rt.features = features

\* C3, amended: of a collection F this importer wrote, load_geojson gives one
\* record per feature, in order, holding the feature's seven properties and
\* lat, lon from its coordinates; normalize_record rejects every one of them
\* (no property of a Feature is a connector or power alias), so the re-import
\* gives the empty collection, F itself only when F is empty.
C3_Reimport ==
    rt.done =>
        /\ rt.features = <<>>
        /\ Len(rt.rows) = Len(features)
        /\ \A i \in 1..Len(features) :
              rt.rows[i] = features[i].properties
                           \o << Entry(K_lat, features[i].geometry.coordinates[2]),
                                 Entry(K_lon, features[i].geometry.coordinates[1]) >>

\* two features were written, one with a negative latitude, and re-imported
C3_Witness ==
    /\ rt.done /\ Len(features) = 2 /\ Len(rt.rows) = 2
    /\ \E i \in 1..2 : features[i].geometry.coordinates[2].x.neg

----------------------------------------------------------------------------
(* fetch_ccs_ocm.py.  A page of the API is the record of its request and its
   length; the items of the pages, in order, are the items fetched. *)

EUROPE_ISO ==
    << "AL","AD","AT","BE","BA","BG","HR","CY","CZ","DK","EE","FI","FR","DE","GR","HU",
       "IS","IE","IT","XK","LV","LI","LT","LU","MT","MD","MC","ME","NL","MK","NO","PL",
       "PT","RO","SM","RS","SK","SI","ES","SE","CH","GB","UA","BY","TR" >>
PAGE_SIZE == 1000
HTTP_OK == 200

MaxCountries == 2
MaxPages == 3

\* the countries of the run: the head of EUROPE_ISO
Countries == SubSeq(EUROPE_ISO, 1, MaxCountries)

\* a response: an exception of requests.get or resp.json(), or a status and
\* the length of the list
Responses ==
    {[raises |-> TRUE, status |-> 0, n |-> 0]}
    \cup {[raises |-> FALSE, status |-> 500, n |-> 0]}
    \cup {[raises |-> FALSE, status |-> HTTP_OK, n |-> n] :
            n \in {0, 1, PAGE_SIZE - 1, PAGE_SIZE}}

Page(cc, off, resp) == [cc |-> cc, offset |-> off, resp |-> resp]

\* the loop goes on after a page of this length: `if len(batch) < PAGE_SIZE: break`
MorePages_until_empty(n) == n > 0
MorePages(n) == n >= PAGE_SIZE

\* the items kept when a response is not 200: the loop breaks, all_items is returned
AfterFailure(items) == items

InitFetch ==
    /\ cidx = 1 /\ offset = 0 /\ all_items = <<>> /\ got = <<>>
    /\ fpc = "fetch" /\ log = <<>> /\ saved = [done |-> FALSE, features |-> 0]
    /\ PowerIdle /\ FkIdle /\ NormIdle /\ GeoIdle /\ MainIdle

fetchOthers == <<powerVars, fkVars, normVars, geoVars, mainVars>>

Fetching == fpc = "fetch" /\ cidx <= Len(Countries)
\* the API ends the data of a country within MaxPages pages
MorePagesLeft == offset < (MaxPages - 1) * PAGE_SIZE

\* fetch_country_ccs returns items to main, which extends its list with
\* them, sleeps and takes the next country
Return(items) ==
    /\ got' = got \o items
    /\ cidx' = cidx + 1 /\ offset' = 0 /\ all_items' = <<>>
    /\ fpc' = IF cidx = Len(Countries) THEN "transform" ELSE "fetch"

\* a full page: extend, offset += PAGE_SIZE, sleep, next request
PageContinues ==
    /\ Fetching /\ MorePagesLeft
    /\ \E resp \in Responses :
        /\ ~resp.raises /\ resp.status = HTTP_OK /\ resp.n > 0 /\ MorePages(resp.n)
        /\ log' = Append(log, Page(Countries[cidx], offset, resp))
        /\ all_items' = Append(all_items, Page(Countries[cidx], offset, resp))
        /\ offset' = offset + PAGE_SIZE
    /\ UNCHANGED <<cidx, got, fpc, saved, fetchOthers>>

\* a page shorter than PAGE_SIZE: extend, break, return
PageLast ==
    /\ Fetching
    /\ \E resp \in Responses :
        /\ ~resp.raises /\ resp.status = HTTP_OK /\ resp.n > 0 /\ ~MorePages(resp.n)
        /\ log' = Append(log, Page(Countries[cidx], offset, resp))
        /\ Return(Append(all_items, Page(Countries[cidx], offset, resp)))
    /\ UNCHANGED <<saved, fetchOthers>>

\* if not batch: break
PageEmpty ==
    /\ Fetching
    /\ \E resp \in Responses :
        /\ ~resp.raises /\ resp.status = HTTP_OK /\ resp.n = 0
        /\ log' = Append(log, Page(Countries[cidx], offset, resp))
        /\ Return(all_items)
    /\ UNCHANGED <<saved, fetchOthers>>

\* if resp.status_code != 200: warn, break
PageFails ==
    /\ Fetching
    /\ \E resp \in Responses :
        /\ ~resp.raises /\ resp.status # HTTP_OK
        /\ log' = Append(log, Page(Countries[cidx], offset, resp))
        /\ Return(AfterFailure(all_items))
    /\ UNCHANGED <<saved, fetchOthers>>

\* requests.get or resp.json() raises: main's except logs it; the items of
\* the country are lost with the call
PageRaises ==
    /\ Fetching
    /\ \E resp \in Responses :
        /\ resp.raises
        /\ log' = Append(log, Page(Countries[cidx], offset, resp))
        /\ Return(<<>>)
    /\ UNCHANGED <<saved, fetchOthers>>

RECURSIVE ItemCount(_)
ItemCount(ps) == IF ps = <<>> THEN 0 ELSE ps[1].resp.n + ItemCount(Tail(ps))

\* transform_to_geojson and json.dump: an item without Latitude or Longitude
\* gives no feature
Save ==
    /\ fpc = "transform"
    /\ \E without \in 0..1 :
        /\ without <= ItemCount(got)
        /\ saved' = [done |-> TRUE, features |-> ItemCount(got) - without]
    /\ fpc' = "saved"
    /\ UNCHANGED <<cidx, offset, all_items, got, log, fetchOthers>>

NextFetch ==
    \/ PageContinues \/ PageLast \/ PageEmpty \/ PageFails \/ PageRaises \/ Save

SpecFetch == InitFetch /\ [][NextFetch]_vars /\ WF_vars(NextFetch)

\* the pages requested for a country, in the order of the requests
PagesOf(cc) == SelectSeq(log, LAMBDA p : p.cc = cc)
Is200(p) == ~p.resp.raises /\ p.resp.status = HTTP_OK
\* a response after which the claim lets no further request follow
Ends(p) == p.resp.raises \/ p.resp.status # HTTP_OK \/ p.resp.n < PAGE_SIZE
EndedByException(cc) ==
    PagesOf(cc) # <<>> /\ PagesOf(cc)[Len(PagesOf(cc))].resp.raises
\* the pages whose items the claim has a country's fetch return
Returned(cc) ==
    IF EndedByException(cc) THEN <<>>
    ELSE SelectSeq(PagesOf(cc), LAMBDA p : Is200(p) /\ p.resp.n > 0)
RECURSIVE ReturnedUpTo(_)
ReturnedUpTo(c) ==
    IF c = 0 THEN <<>> ELSE ReturnedUpTo(c - 1) \o Returned(Countries[c])

C10_Protocol ==
    \* offsets 0, PAGE_SIZE, 2 * PAGE_SIZE, ... and nothing after an ending response
    /\ \A c \in 1..Len(Countries) :
        LET ps == PagesOf(Countries[c])
        IN /\ \A i \in 1..Len(ps) : ps[i].offset = (i - 1) * PAGE_SIZE
           /\ \A i \in 1..Len(ps) : Ends(ps[i]) => i = Len(ps)
           /\ (c < cidx) => (ps # <<>> /\ Ends(ps[Len(ps)]))
           /\ (c > cidx) => ps = <<>>
    \* the countries are requested in list order
    /\ \A i, j \in 1..Len(log) :
        i < j => \E c, d \in 1..Len(Countries) :
                    c <= d /\ log[i].cc = Countries[c] /\ log[j].cc = Countries[d]
    \* what was returned so far, and what the running fetch holds
    /\ got = ReturnedUpTo(cidx - 1)
    /\ (Fetching => all_items = PagesOf(Countries[cidx]))
    \* the file is written once every country was fetched
    /\ (saved.done => cidx = Len(Countries) + 1)

\* C10: per country the offsets 0, PAGE_SIZE, 2 * PAGE_SIZE, ... are requested
\* in order and the fetch stops right after the first response that is not
\* 200, is empty or is shorter than PAGE_SIZE; it returns the items of the 200
\* pages in order (a response that is not 200 keeps the earlier pages); when
\* the API gives such a page the fetch ends; a failure or an exception for one
\* country stops neither the countries after it, in list order, nor the
\* writing of the output.
C10_Pagination == [](C10_Protocol) /\ <>(saved.done)

\* the run ended: the first country gave a full page and then a 500, the
\* second raised, and the items of the full page were saved
C10_Witness ==
    /\ saved.done
    /\ Len(PagesOf(Countries[1])) = 2
    /\ PagesOf(Countries[1])[2].resp.status = 500
    /\ EndedByException(Countries[2])
    /\ ItemCount(got) = PAGE_SIZE

====
